---- MODULE Spec2Model ----
(***************************************************************************)
(* quickchart-cloudflare: the Worker gateway (default.fetch), the warmup   *)
(* (warmupBrowserSession) and the Durable Object BrowserSession of         *)
(* src/index.js.                                                           *)
(*                                                                         *)
(* Every `await` of the source is a suspension point: the operand of the   *)
(* await is evaluated (the engine operation is issued on the page or       *)
(* browser the session holds at that moment) and the handler resumes in a  *)
(* later step, when the operation completes.  Between the two, any other   *)
(* handler of the same object may run: the source has no gate of its own.  *)
(* Consecutive awaits between which nothing changes that a handler reads   *)
(* (lines 149-154, 155-158, 176-182, 197-201) are one step.                *)
(*                                                                         *)
(* Spec is the gateway and the session; SpecIdle adds the clock and the    *)
(* alarm handler; SpecLive is the session with every engine operation      *)
(* eventually settling; SpecNorm is the request normalizer                 *)
(* (parseChartParameters, decodeChartConfig, applyChartOptions) on         *)
(* requests given in full, the session not being run.                      *)
(***************************************************************************)
EXTENDS Integers, FiniteSets, Sequences, TLC

\* ---- bounds of the model
NReq == 2
MaxConc == 2
MaxTicks == 2
MaxFaults == 1

\* ---- program constants
IdleMs == 300000
AlarmMs == 60000

Null == 0
NoAlarm == 0 - 1
TickMs == IdleMs

W == 0
Reqs == 1..NReq
Calls == 0..NReq
AlarmId == NReq + 1
Actors == 0..(NReq + 1)

Methods == {"GET", "POST", "HEAD", "DELETE"}
Paths == {"/", "/health", "/chart", "/other"}

VARIABLES
  browser,        \* this.browser: id of a launched browser, or Null
  page,           \* this.page: id of a page (the page of browser i has id i), or Null
  lastUsed,       \* this.lastUsed
  requestCount,   \* this.requestCount
  alarmAt,        \* the storage alarm of the object: a time, or NoAlarm
  nextId,         \* number of browsers launched so far
  openB,          \* browsers launched and not closed
  openP,          \* pages opened and not closed
  loaded,         \* pages on which HTML_TEMPLATE has been set
  ready,          \* pages whose window.chartReady is set true by the chart drawn last
  warmedUp,       \* globalThis.__warmedUp
  warmups,        \* number of warmup renders issued
  now,            \* Date.now()
  pc,             \* where each handler is suspended
  tgt,            \* the page or browser the pending operation was issued on
  releasedBy,     \* what set the flag that released each call's wait for
                  \* chartReady: "onComplete", "frame" (the fallback), or "none"
  didInit,        \* timings.initialization is the init path's (not 0)
  req,            \* the request each gateway call serves
  resp,           \* the response each gateway call has produced
  cause,          \* why a call threw: "fault" (an engine operation failed by
                  \* itself), "unloaded" (a page without the template), "gone"
                  \* (the page or browser was disposed under it), or "none"
  norm,           \* what the gateway last extracted from a /chart request and
                  \* the chartConfig it built from it (with the chart the test
                  \* client started from, when the request was the client's)
  serial,         \* no call has entered fetch while another was inside it
  lastRet         \* what the latest successful fetch reported

vars == <<browser, page, lastUsed, requestCount, alarmAt, nextId, openB,
          openP, loaded, ready, warmedUp, warmups, now, pc, tgt, releasedBy,
          didInit, req, resp, cause, norm, serial, lastRet>>

DOPcs == {"launch", "newPage", "setContent", "waitChart", "evaluate",
          "waitReady", "screenshot", "closePage", "closeBrowser"}

\* calls inside BrowserSession.fetch: past line 85, not yet returned or rethrown
InDO == {c \in Calls : pc[c] \in DOPcs}

NoReq == [method |-> "", path |-> "", chart |-> "", after |-> FALSE]
NoResp == [status |-> 0, reused |-> FALSE, count |-> 0, init |-> FALSE,
           rid |-> FALSE, body |-> "", keys |-> {}, error |-> ""]

\* ---- the gateway's responses (default.fetch): `keys` are the members of a
\*      JSON body, `error` the text of its error member, `rid` whether the
\*      response carries metrics.requestId (as X-Request-ID or in the body)
HealthResp == [NoResp EXCEPT !.status = 200, !.rid = TRUE, !.body = "health"]
MissingResp == [NoResp EXCEPT !.status = 400, !.body = "missing",
                              !.keys = {"error"},
                              !.error = "Missing chart configuration"]
InvalidResp == [NoResp EXCEPT !.status = 400, !.body = "invalid",
                              !.keys = {"error", "details"},
                              !.error = "Invalid chart configuration"]
NotFoundResp == [NoResp EXCEPT !.status = 404, !.rid = TRUE, !.body = "notfound"]

\* lines 479-488: the body's error member is the message of the error caught
ErrorResp(message) ==
  [NoResp EXCEPT !.status = 500, !.rid = TRUE, !.body = "error",
                 !.keys = {"error", "requestId"}, !.error = message]

\* the reuse flag taken from requestCount > 0
ChartResp_reusedFromZero(c) ==
  [NoResp EXCEPT !.status = 200, !.reused = (requestCount > 0),
                 !.count = requestCount, !.init = didInit[c], !.rid = TRUE,
                 !.body = "png"]

\* the Response of BrowserSession.fetch, with the gateway's X-Request-ID added
ChartResp(c) ==
  [NoResp EXCEPT !.status = 200, !.reused = (requestCount > 1),
                 !.count = requestCount, !.init = didInit[c], !.rid = TRUE,
                 !.body = "png"]

\* what a request may carry as its chart value
ChartKinds(m) ==
  IF m = "POST" THEN {"missing", "malformed", "valid", "badbody"}
  ELSE {"missing", "malformed", "valid"}

\* the chart value parseChartParameters extracts: undefined for other methods
parseChartParameters(m, k) == IF m \in {"GET", "POST"} THEN k ELSE "missing"

\* the branch default.fetch takes for a request
Route(m, p, k) ==
  IF p \in {"/", "/health"} THEN "health"
  ELSE IF p = "/chart"
       THEN IF m = "POST" /\ k = "badbody" THEN "error"
            ELSE IF parseChartParameters(m, k) = "missing" THEN "missing"
            ELSE IF parseChartParameters(m, k) = "malformed" THEN "invalid"
            ELSE "dispatch"
       ELSE "notfound"

ImmediateResp(o) ==
  CASE o = "health" -> HealthResp
    [] o = "missing" -> MissingResp
    [] o = "invalid" -> InvalidResp
    [] o = "error" -> ErrorResp("badbody")
    [] OTHER -> NotFoundResp

\* ------------------------------------------------------------------------
\* the values of the request normalizer.  A string is the sequence of its code
\* units; a JavaScript value is a record tagged by its type.
MaxLabel == 2

Absent == [t |-> "absent"]
Thrown == [t |-> "throw"]
NaN == [t |-> "nan"]
JsonNull == [t |-> "null"]
Unset == [t |-> "unset"]
NoSpec == [t |-> "none"]
NoConfig == [t |-> "none"]

Str(s) == [t |-> "str", s |-> s]
\* a number: its integer part and whether it has a fraction
Num(n, frac) == [t |-> "num", n |-> n, frac |-> frac]
Obj(v) == [t |-> "obj", v |-> v]
IntVal(n) == [t |-> "int", n |-> n]

\* the letters a chart's text is made of: A, e-acute (U+00E9), euro (U+20AC)
Letters == {65, 233, 8364}

Labels == UNION {[1..n -> Letters] : n \in 0..MaxLabel}

\* a chart: of testChart (test.js lines 8-27) the model keeps one string
ChartSpecs == {[t |-> "spec", type |-> l] : l \in Labels}

\* the values of w, width, h, height: "400", "0", "-5", "abc", "12.7", ""
StrDims ==
  {Absent, Str(<<52, 48, 48>>), Str(<<48>>), Str(<<45, 53>>),
   Str(<<97, 98, 99>>), Str(<<49, 50, 46, 55>>), Str(<<>>)}

\* and, in a JSON body, the numbers 250, 0, -5, 12.7
NumDims == {Num(250, FALSE), Num(0, FALSE), Num(0 - 5, FALSE), Num(12, TRUE)}

RawDims(m) == IF m = "GET" THEN StrDims ELSE StrDims \cup NumDims

\* the value of the second name of a parameter (width, height): "300" or none
Aliases == {Absent, Str(<<51, 48, 48>>)}

\* the truth value JavaScript gives a value in `a || b` and in `if (a)`
Truthy(v) ==
  CASE v.t = "absent" -> FALSE
    [] v.t = "str" -> v.s # <<>>
    [] v.t = "num" -> v.n # 0 \/ v.frac
    [] OTHER -> TRUE

\* a || b
Or(a, b) == IF Truthy(a) THEN a ELSE b

IsDigit(ch) == ch \in 48..57

RECURSIVE LeadDigits(_)
\* the longest prefix of s made of digits
LeadDigits(s) ==
  IF s = <<>> \/ ~IsDigit(s[1]) THEN <<>>
  ELSE <<s[1]>> \o LeadDigits(Tail(s))

RECURSIVE DigitsValue(_)
DigitsValue(d) ==
  IF d = <<>> THEN 0
  ELSE 10 * DigitsValue(SubSeq(d, 1, Len(d) - 1)) + (d[Len(d)] - 48)

\* parseInt(v, 10): an optional sign, then the digits up to the first other
\* character; NaN when there is no digit.  A number is first written out, so
\* its fraction is dropped.
parseInt(v) ==
  IF v.t = "num" THEN IntVal(v.n)
  ELSE LET signed == v.s # <<>> /\ v.s[1] \in {43, 45}
           digits == LeadDigits(IF signed THEN Tail(v.s) ELSE v.s)
       IN IF digits = <<>> THEN NaN
          ELSE IF signed /\ v.s[1] = 45 THEN IntVal(0 - DigitsValue(digits))
          ELSE IntVal(DigitsValue(digits))

\* ---- base64: the alphabet A-Z a-z 0-9 + / and the padding =
B64Char(i) ==
  IF i < 26 THEN 65 + i
  ELSE IF i < 52 THEN 71 + i
  ELSE IF i < 62 THEN i - 4
  ELSE IF i = 62 THEN 43 ELSE 47

B64Index(ch) ==
  IF ch \in 65..90 THEN ch - 65
  ELSE IF ch \in 97..122 THEN ch - 71
  ELSE IF ch \in 48..57 THEN ch + 4
  ELSE IF ch = 43 THEN 62
  ELSE IF ch = 47 THEN 63 ELSE 0 - 1

RECURSIVE B64Encode(_)
\* three bytes give four characters; one or two bytes are padded
B64Encode(b) ==
  IF b = <<>> THEN <<>>
  ELSE LET n == b[1] * 65536 + (IF Len(b) > 1 THEN b[2] * 256 ELSE 0)
                  + (IF Len(b) > 2 THEN b[3] ELSE 0)
           c1 == B64Char(n \div 262144)
           c2 == B64Char((n \div 4096) % 64)
           c3 == B64Char((n \div 64) % 64)
           c4 == B64Char(n % 64)
       IN IF Len(b) = 1 THEN <<c1, c2, 61, 61>>
          ELSE IF Len(b) = 2 THEN <<c1, c2, c3, 61>>
          ELSE <<c1, c2, c3, c4>> \o B64Encode(SubSeq(b, 4, Len(b)))

RECURSIVE B64Decode(_)
\* four characters give three bytes; two or three left over give one or two
B64Decode(t) ==
  IF t = <<>> THEN <<>>
  ELSE LET n == B64Index(t[1]) * 262144 + B64Index(t[2]) * 4096
                  + (IF Len(t) > 2 THEN B64Index(t[3]) * 64 ELSE 0)
                  + (IF Len(t) > 3 THEN B64Index(t[4]) ELSE 0)
       IN IF Len(t) = 2 THEN <<n \div 65536>>
          ELSE IF Len(t) = 3 THEN <<n \div 65536, (n \div 256) % 256>>
          ELSE <<n \div 65536, (n \div 256) % 256, n % 256>>
                 \o B64Decode(SubSeq(t, 5, Len(t)))

\* btoa (test.js line 99): one byte per code unit; a code unit above 255 throws
btoa(s) ==
  IF \E i \in 1..Len(s) : s[i] > 255 THEN Thrown
  ELSE Str(B64Encode(s))

\* atob (line 281): the padding is dropped, a character outside the alphabet
\* or a length of 1 modulo 4 throws, and each byte decoded is one code unit
\* of the result.  A value that is not a string is first written out
\* ("[object Object]"), which is not base64.
atob(v) ==
  IF v.t # "str" THEN Thrown
  ELSE LET s == v.s
           t == IF Len(s) % 4 = 0 /\ Len(s) >= 2 /\ s[Len(s)] = 61
                THEN IF s[Len(s) - 1] = 61 THEN SubSeq(s, 1, Len(s) - 2)
                     ELSE SubSeq(s, 1, Len(s) - 1)
                ELSE s
       IN IF Len(t) % 4 = 1 \/ \E i \in 1..Len(t) : B64Index(t[i]) < 0
          THEN Thrown
          ELSE Str(B64Decode(t))

\* ---- JSON: the text of a chart is {"t":"<type>"}
JsonHead == <<123, 34, 116, 34, 58, 34>>
JsonTail == <<34, 125>>

\* JSON.stringify (test.js lines 72 and 98): letters are written as they are
JSON_stringify(spec) == JsonHead \o spec.type \o JsonTail

\* JSON.parse (lines 282, 285): the text must be an object with the string
\* member t; a quote, a backslash or a control character inside the string
\* throws
JSON_parse(v) ==
  LET s == v.s
      n == Len(s) - Len(JsonHead) - Len(JsonTail)
  IN IF /\ n >= 0
        /\ SubSeq(s, 1, Len(JsonHead)) = JsonHead
        /\ SubSeq(s, Len(s) - 1, Len(s)) = JsonTail
        /\ \A i \in (Len(JsonHead) + 1)..(Len(s) - 2) :
             s[i] >= 32 /\ s[i] \notin {34, 92}
     THEN [t |-> "cfg",
           spec |-> [t |-> "spec",
                     type |-> SubSeq(s, Len(JsonHead) + 1, Len(s) - 2)],
           width |-> Unset, height |-> Unset]
     ELSE Thrown

\* decodeChartConfig, lines 278-287
decodeChartConfig(chart, encoding) ==
  IF encoding = "base64"
  THEN LET decoded == atob(chart)
       IN IF decoded.t = "throw" THEN Thrown ELSE JSON_parse(decoded)
  ELSE IF chart.t = "str" THEN JSON_parse(chart)
  ELSE [t |-> "cfg", spec |-> chart.v, width |-> Unset, height |-> Unset]

\* applyChartOptions, lines 295-313 (the dimensions)
applyChartOptions(chartConfig, options) ==
  [chartConfig EXCEPT
     !.width = IF Truthy(options.width) THEN parseInt(options.width) ELSE @,
     !.height = IF Truthy(options.height) THEN parseInt(options.height) ELSE @]

\* JSON.stringify({chart: chartConfig}), line 424: NaN is written as null
doRequest(chartConfig) ==
  [chartConfig EXCEPT
     !.width = IF @.t = "nan" THEN JsonNull ELSE @,
     !.height = IF @.t = "nan" THEN JsonNull ELSE @]

\* the options parseChartParameters returns, lines 251-256 and 261-266
parseOptions(w, width, h, height, encoding) ==
  [width |-> Or(w, width), height |-> Or(h, height),
   encoding |-> IF encoding = "none" THEN "url" ELSE encoding]

\* lines 386-414: what the gateway makes of the chart value
BuiltConfig(chart, options) ==
  IF ~Truthy(chart) THEN NoConfig
  ELSE LET decoded == decodeChartConfig(chart, options.encoding)
       IN IF decoded.t = "throw" THEN NoConfig
          ELSE doRequest(applyChartOptions(decoded, options))

ChartKind(chart, options) ==
  IF ~Truthy(chart) THEN "missing"
  ELSE IF decodeChartConfig(chart, options.encoding).t = "throw"
       THEN "malformed"
       ELSE "valid"

NoNorm ==
  [from |-> NoSpec, chart |-> Absent, encoding |-> "none", w |-> Absent,
   width |-> Absent, h |-> Absent, height |-> Absent, config |-> NoConfig]

InitSession ==
  /\ browser = Null
  /\ page = Null
  /\ lastUsed = 0
  /\ requestCount = 0
  /\ nextId = 0
  /\ openB = {}
  /\ openP = {}
  /\ loaded = {}
  /\ ready = {}
  /\ warmedUp = FALSE
  /\ warmups = 0
  /\ now = 0
  /\ pc = [a \in Actors |-> IF a = AlarmId THEN "off" ELSE "idle"]
  /\ tgt = [a \in Actors |-> Null]
  /\ releasedBy = [c \in Calls |-> "none"]
  /\ didInit = [c \in Calls |-> FALSE]
  /\ req = [r \in Reqs |-> NoReq]
  /\ resp = [r \in Reqs |-> NoResp]
  /\ cause = [c \in Calls |-> "none"]
  /\ norm = NoNorm
  /\ serial = TRUE
  /\ lastRet = [count |-> 0, reused |-> FALSE]

\* a fresh object on fresh storage: no code path but alarm() itself sets an alarm
Init == InitSession /\ alarmAt = NoAlarm

\* the object is constructed while its storage holds an alarm (or none)
InitIdle == InitSession /\ alarmAt \in {NoAlarm, AlarmMs}

\* ---- where a handler ends
EndPc(a) == IF a = AlarmId THEN "off" ELSE IF a = W THEN "done" ELSE "responded"

\* cleanup(), entered by actor a: lines 212-221 up to its first await
cleanup(a) ==
  /\ pc' = [pc EXCEPT ![a] = IF page # Null THEN "closePage"
                             ELSE IF browser # Null THEN "closeBrowser"
                             ELSE EndPc(a)]
  /\ tgt' = [tgt EXCEPT ![a] = IF page # Null THEN page ELSE browser]
  /\ requestCount' = IF page = Null /\ browser = Null THEN 0 ELSE requestCount
  /\ resp' = IF page = Null /\ browser = Null /\ a \in Reqs
             THEN [resp EXCEPT ![a] = ErrorResp(cause'[a])] ELSE resp
  /\ UNCHANGED <<browser, page, lastUsed>>

\* the catch of fetch that starts over instead of cleaning up
Throw_retry(c, why) ==
  /\ cause' = [cause EXCEPT ![c] = why]
  /\ pc' = [pc EXCEPT ![c] = "launch"]
  /\ UNCHANGED <<browser, page, lastUsed, requestCount, tgt, resp>>

\* the catch of fetch, lines 133-139: call c threw for the reason `why`
Throw(c, why) ==
  /\ cause' = [cause EXCEPT ![c] = why]
  /\ cleanup(c)

\* the next operation is issued on this.page; a null this.page throws at once
IssueOnPage(c, next) ==
  IF page = Null THEN Throw(c, "gone")
  ELSE /\ pc' = [pc EXCEPT ![c] = next]
       /\ tgt' = [tgt EXCEPT ![c] = page]
       /\ UNCHANGED <<browser, page, lastUsed, requestCount, resp, cause>>

\* lines 107-108, then updateChart entered: line 176 issued on this.page
CountAndUpdate(c) ==
  /\ requestCount' = requestCount + 1
  /\ lastUsed' = now
  /\ pc' = [pc EXCEPT ![c] = "evaluate"]
  /\ tgt' = [tgt EXCEPT ![c] = page]
  /\ UNCHANGED <<browser, page, resp, cause>>

\* calls in which an engine operation failed by itself
faulty == {c \in Calls : cause[c] = "fault"}

\* an engine operation may fail by itself, at most MaxFaults times in a run
Outcomes == IF Cardinality(faulty) < MaxFaults THEN BOOLEAN ELSE {TRUE}

\* how the operation pending on page tgt[c] settles
PageOp(c, ok, needsTemplate) ==
  IF ~ok THEN "fault"
  ELSE IF tgt[c] \notin openP THEN "gone"
  ELSE IF needsTemplate /\ tgt[c] \notin loaded THEN "unloaded"
  ELSE "ok"

\* the flag left as it was
markWarmedUp_forgotten(flag) == flag

\* line 356: globalThis.__warmedUp = true
markWarmedUp(flag) == TRUE

\* ---- default.fetch, up to its response or to `await stub.fetch(doRequest)`;
\*      the first request also runs warmupBrowserSession up to its await
gateway(r, m, p, k) ==
  /\ pc[r] = "idle"
  /\ r = 1 \/ pc[r - 1] # "idle"       \* requests are numbered in order of arrival
  /\ req' = [req EXCEPT ![r] = [method |-> m, path |-> p, chart |-> k,
                                after |-> r > 1 /\ pc[r - 1] = "responded"]]
  /\ warmedUp' = markWarmedUp(warmedUp)
  /\ warmups' = IF warmedUp THEN warmups ELSE warmups + 1
  /\ pc' = [pc EXCEPT
              ![W] = IF warmedUp THEN pc[W] ELSE "sent",
              ![r] = IF Route(m, p, k) = "dispatch" THEN "sent"
                     ELSE "responded"]
  /\ resp' = IF Route(m, p, k) = "dispatch" THEN resp
             ELSE [resp EXCEPT ![r] = ImmediateResp(Route(m, p, k))]
  /\ UNCHANGED <<browser, page, lastUsed, requestCount, alarmAt, nextId,
                 openB, openP, loaded, ready, now, tgt, releasedBy, didInit,
                 cause, serial, lastRet>>

\* a request of any method and path; of its parameters only the kind is kept
default_fetch(r) ==
  /\ \E m \in Methods, p \in Paths :
       \E k \in (IF p = "/chart" THEN ChartKinds(m) ELSE {"missing"}) :
         gateway(r, m, p, k)
  /\ UNCHANGED norm

\* a request that reaches the session: GET /chart with a valid chart
default_fetch_chart(r) == gateway(r, "GET", "/chart", "valid") /\ UNCHANGED norm

\* ---- default.fetch on a /chart request whose parameters are given in full;
\*      `from` is the chart the client encoded, when the client is testWorker
normalize(r, m, chart, encoding, w, width, h, height, from) ==
  LET options == parseOptions(w, width, h, height, encoding)
  IN /\ gateway(r, m, "/chart", ChartKind(chart, options))
     /\ norm' = [from |-> from, chart |-> chart, encoding |-> encoding,
                 w |-> w, width |-> width, h |-> h, height |-> height,
                 config |-> BuiltConfig(chart, options)]

\* chart values: none, "", "{", "!!", and the JSON text of a chart
RawCharts ==
  {Absent, Str(<<>>), Str(<<123>>), Str(<<33, 33>>),
   Str(JSON_stringify([t |-> "spec", type |-> <<65>>]))}

\* a GET or POST /chart request with any chart value and encoding
default_fetch_raw(r) ==
  \E m \in {"GET", "POST"}, chart \in RawCharts,
     encoding \in {"none", "url", "base64"} :
    normalize(r, m, chart, encoding, Absent, Absent, Absent, Absent, NoSpec)

\* a GET or POST /chart request with a valid chart and any dimensions
default_fetch_options(r) ==
  \E m \in {"GET", "POST"} :
    \E w \in RawDims(m), width \in Aliases, h \in RawDims(m) :
      normalize(r, m, Str(JSON_stringify([t |-> "spec", type |-> <<65>>])),
                "none", w, width, h, Absent, NoSpec)

\* test.js, Test 2 (lines 44-67): the chart as a member of a JSON body
testWorker_post(r, spec) ==
  normalize(r, "POST", Obj(spec), "none", Num(500, FALSE), Absent,
            Num(300, FALSE), Absent, spec)

\* test.js, Test 3 (lines 69-93): the chart's JSON text in the query string
testWorker_get(r, spec) ==
  normalize(r, "GET", Str(JSON_stringify(spec)), "none",
            Str(<<52, 48, 48>>), Absent, Str(<<50, 53, 48>>), Absent, spec)

\* test.js, Test 4 (lines 95-121): btoa of the chart's JSON text; when btoa
\* throws, the catch of line 119 reports it and no request is made
testWorker_base64(r, spec) ==
  LET base64 == btoa(JSON_stringify(spec))
  IN IF base64.t = "throw"
     THEN /\ pc[r] = "idle"
          /\ norm' = [NoNorm EXCEPT !.from = spec, !.chart = Thrown,
                                    !.encoding = "base64"]
          /\ UNCHANGED <<browser, page, lastUsed, requestCount, alarmAt,
                         nextId, openB, openP, loaded, ready, warmedUp,
                         warmups, now, pc, tgt, releasedBy, didInit, req,
                         resp, cause, serial, lastRet>>
     ELSE normalize(r, "GET", base64, "base64", Str(<<54, 48, 48>>), Absent,
                    Str(<<52, 48, 48>>), Absent, spec)

testWorker(r) ==
  \E spec \in ChartSpecs :
    \/ testWorker_post(r, spec)
    \/ testWorker_get(r, spec)
    \/ testWorker_base64(r, spec)

\* ---- BrowserSession.fetch, lines 84-105: resumes after request.json()
BrowserSession_fetch(c) ==
  /\ pc[c] = "sent"
  /\ Cardinality(InDO) < MaxConc      \* at most MaxConc calls are delivered at once
  /\ serial' = (serial /\ InDO = {})
  /\ IF browser = Null \/ page = Null
     THEN /\ pc' = [pc EXCEPT ![c] = "launch"]
          /\ didInit' = [didInit EXCEPT ![c] = TRUE]
          /\ UNCHANGED <<browser, page, lastUsed, requestCount, tgt, resp,
                         cause>>
     ELSE /\ didInit' = [didInit EXCEPT ![c] = FALSE]
          /\ CountAndUpdate(c)
  /\ UNCHANGED <<alarmAt, nextId, openB, openP, loaded, ready, warmedUp,
                 warmups, now, releasedBy, req, norm, lastRet>>

\* ---- initializeBrowser, line 145: puppeteer.launch resolves
initializeBrowser_launch(c) ==
  /\ pc[c] = "launch"
  /\ \E ok \in Outcomes :
       IF ok
       THEN /\ nextId' = nextId + 1
            /\ openB' = openB \cup {nextId + 1}
            /\ browser' = nextId + 1
            /\ pc' = [pc EXCEPT ![c] = "newPage"]
            /\ tgt' = [tgt EXCEPT ![c] = nextId + 1]
            /\ UNCHANGED <<page, lastUsed, requestCount, resp, cause>>
       ELSE /\ Throw(c, "fault")
            /\ UNCHANGED <<nextId, openB>>
  /\ UNCHANGED <<alarmAt, openP, loaded, ready, warmedUp, warmups, now,
                 releasedBy, didInit, req, norm, serial, lastRet>>

\* ---- initializeBrowser, line 146: browser.newPage resolves; line 149 issued
initializeBrowser_newPage(c) ==
  /\ pc[c] = "newPage"
  /\ \E ok \in Outcomes :
       IF ok /\ tgt[c] \in openB
       THEN /\ openP' = openP \cup {tgt[c]}
            /\ page' = tgt[c]
            /\ pc' = [pc EXCEPT ![c] = "setContent"]
            /\ UNCHANGED <<browser, lastUsed, requestCount, tgt, resp, cause>>
       ELSE /\ Throw(c, IF ok THEN "gone" ELSE "fault")
            /\ UNCHANGED openP
  /\ UNCHANGED <<alarmAt, nextId, openB, loaded, ready, warmedUp, warmups,
                 now, releasedBy, didInit, req, norm, serial, lastRet>>

\* ---- initializeBrowser, lines 149-154: the viewport is set and
\*      page.setContent(HTML_TEMPLATE) resolves; line 155 issued
initializeBrowser_setContent(c) ==
  /\ pc[c] = "setContent"
  /\ \E ok \in Outcomes :
       IF PageOp(c, ok, FALSE) = "ok"
       THEN /\ loaded' = loaded \cup {tgt[c]}
            /\ IssueOnPage(c, "waitChart")
       ELSE /\ Throw(c, PageOp(c, ok, FALSE))
            /\ UNCHANGED loaded
  /\ UNCHANGED <<alarmAt, nextId, openB, openP, ready, warmedUp, warmups, now,
                 releasedBy, didInit, req, norm, serial, lastRet>>

\* ---- initializeBrowser, lines 155-168: Chart is defined and the request
\*      interception is on; then fetch lines 94-112
initializeBrowser_waitForFunction(c) ==
  /\ pc[c] = "waitChart"
  /\ \E ok \in Outcomes :
       IF PageOp(c, ok, TRUE) # "ok" THEN Throw(c, PageOp(c, ok, TRUE))
       ELSE IF page = Null THEN Throw(c, "gone")
       ELSE CountAndUpdate(c)
  /\ UNCHANGED <<alarmAt, nextId, openB, openP, loaded, ready, warmedUp,
                 warmups, now, releasedBy, didInit, req, norm, serial,
                 lastRet>>

\* ---- updateChart, lines 176-188: the viewport is set and
\*      window.updateChart(config) has run in the page; line 191 issued
updateChart_evaluate(c) ==
  /\ pc[c] = "evaluate"
  /\ \E ok \in Outcomes :
       IF PageOp(c, ok, TRUE) = "ok"
       THEN /\ ready' = ready \cup {tgt[c]}
            /\ IssueOnPage(c, "waitReady")
       ELSE /\ Throw(c, PageOp(c, ok, TRUE))
            /\ UNCHANGED ready
  /\ UNCHANGED <<alarmAt, nextId, openB, openP, loaded, warmedUp, warmups,
                 now, releasedBy, didInit, req, norm, serial, lastRet>>

\* window.updateChart, lines 47-63: chartReady is set by the library's call of
\* onComplete (line 53) and, whether or not that call has come, by the frame
\* callback (line 62)
Setters == {"onComplete", "frame"}

\* ---- updateChart, lines 191-193: chartReady was seen true on the page the
\*      wait was issued on, or the 5000 ms expired (an engine failure, or a page
\*      on which no chart was drawn); takeScreenshot line 197 issued
updateChart_waitForFunction(c) ==
  /\ pc[c] = "waitReady"
  /\ \E ok \in Outcomes :
       IF PageOp(c, ok, TRUE) = "ok" /\ tgt[c] \in ready
       THEN /\ IssueOnPage(c, "screenshot")
            /\ \E by \in Setters :
                 releasedBy' = [releasedBy EXCEPT ![c] =
                                  IF page = Null THEN "none" ELSE by]
       ELSE /\ Throw(c, IF PageOp(c, ok, TRUE) = "ok" THEN "unloaded"
                        ELSE PageOp(c, ok, TRUE))
            /\ UNCHANGED releasedBy
  /\ UNCHANGED <<alarmAt, nextId, openB, openP, loaded, ready, warmedUp,
                 warmups, now, didInit, req, norm, serial, lastRet>>

\* ---- takeScreenshot, lines 197-209, then fetch lines 120-132 and the
\*      gateway's lines 427-470 (for the warmup, line 340)
takeScreenshot(c) ==
  /\ pc[c] = "screenshot"
  /\ releasedBy' = [releasedBy EXCEPT ![c] = "none"]
  /\ \E ok \in Outcomes :
       IF PageOp(c, ok, TRUE) = "ok"
       THEN /\ pc' = [pc EXCEPT ![c] = EndPc(c)]
            /\ resp' = IF c \in Reqs THEN [resp EXCEPT ![c] = ChartResp(c)]
                       ELSE resp
            /\ lastRet' = [count |-> ChartResp(c).count,
                           reused |-> ChartResp(c).reused]
            /\ UNCHANGED <<browser, page, lastUsed, requestCount, tgt, cause>>
       ELSE /\ Throw(c, PageOp(c, ok, TRUE))
            /\ UNCHANGED lastRet
  /\ UNCHANGED <<alarmAt, nextId, openB, openP, loaded, ready, warmedUp,
                 warmups, now, didInit, req, norm, serial>>

\* ---- cleanup, lines 214-221: page.close() has settled
cleanup_closePage(a) ==
  /\ pc[a] = "closePage"
  /\ openP' = openP \ {tgt[a]}
  /\ page' = Null
  /\ pc' = [pc EXCEPT ![a] = IF browser # Null THEN "closeBrowser" ELSE EndPc(a)]
  /\ tgt' = [tgt EXCEPT ![a] = browser]
  /\ requestCount' = IF browser = Null THEN 0 ELSE requestCount
  /\ resp' = IF browser = Null /\ a \in Reqs
             THEN [resp EXCEPT ![a] = ErrorResp(cause[a])] ELSE resp
  /\ UNCHANGED <<browser, lastUsed, alarmAt, nextId, openB, loaded, ready,
                 warmedUp, warmups, now, releasedBy, didInit, req, norm,
                 cause, serial, lastRet>>

\* ---- cleanup, lines 218-221: browser.close() has settled; the caller's catch
\*      rethrows (line 139) and the gateway answers 500 (lines 477-488)
cleanup_closeBrowser(a) ==
  /\ pc[a] = "closeBrowser"
  /\ openB' = openB \ {tgt[a]}
  /\ openP' = openP \ {tgt[a]}
  /\ browser' = Null
  /\ requestCount' = 0
  /\ pc' = [pc EXCEPT ![a] = EndPc(a)]
  /\ resp' = IF a \in Reqs THEN [resp EXCEPT ![a] = ErrorResp(cause[a])]
             ELSE resp
  /\ UNCHANGED <<page, lastUsed, alarmAt, nextId, loaded, ready, warmedUp,
                 warmups, now, tgt, releasedBy, didInit, req, norm, cause,
                 serial, lastRet>>

\* the test of line 227, with the weak comparison
isIdle_inclusive(idleTime) == idleTime >= IdleMs

\* line 227: idleTime > 5 * 60 * 1000
isIdle(idleTime) == idleTime > IdleMs

\* ---- alarm, lines 224-234: the storage alarm is due and its handler runs
alarm ==
  /\ pc[AlarmId] = "off"
  /\ alarmAt # NoAlarm
  /\ now >= alarmAt
  /\ IF isIdle(now - lastUsed)
     THEN /\ alarmAt' = NoAlarm
          /\ cleanup(AlarmId)
     ELSE /\ alarmAt' = now + AlarmMs
          /\ UNCHANGED <<browser, page, lastUsed, requestCount, pc, tgt, resp>>
  /\ UNCHANGED <<nextId, openB, openP, loaded, ready, warmedUp, warmups, now,
                 releasedBy, didInit, req, norm, cause, serial, lastRet>>

\* ---- time passes, by the idle threshold at once: between calls only, since
\*      every wait inside a call is bounded by seconds
Tick ==
  /\ now + TickMs <= MaxTicks * TickMs
  /\ InDO = {} /\ pc[AlarmId] = "off"
  /\ now' = now + TickMs
  /\ UNCHANGED <<browser, page, lastUsed, requestCount, alarmAt, nextId,
                 openB, openP, loaded, ready, warmedUp, warmups, pc, tgt,
                 releasedBy, didInit, req, norm, resp, cause, serial, lastRet>>

Next ==
  \/ \E r \in Reqs : default_fetch(r)
  \/ \E c \in Calls : BrowserSession_fetch(c)
  \/ \E c \in Calls : initializeBrowser_launch(c)
  \/ \E c \in Calls : initializeBrowser_newPage(c)
  \/ \E c \in Calls : initializeBrowser_setContent(c)
  \/ \E c \in Calls : initializeBrowser_waitForFunction(c)
  \/ \E c \in Calls : updateChart_evaluate(c)
  \/ \E c \in Calls : updateChart_waitForFunction(c)
  \/ \E c \in Calls : takeScreenshot(c)
  \/ \E a \in Actors : cleanup_closePage(a)
  \/ \E a \in Actors : cleanup_closeBrowser(a)

Spec == Init /\ [][Next]_vars

\* the session under passing time, with the alarm handler
Render ==
  \/ \E c \in Calls : BrowserSession_fetch(c)
  \/ \E c \in Calls : initializeBrowser_launch(c)
  \/ \E c \in Calls : initializeBrowser_newPage(c)
  \/ \E c \in Calls : initializeBrowser_setContent(c)
  \/ \E c \in Calls : initializeBrowser_waitForFunction(c)
  \/ \E c \in Calls : updateChart_evaluate(c)
  \/ \E c \in Calls : updateChart_waitForFunction(c)
  \/ \E c \in Calls : takeScreenshot(c)
  \/ \E a \in Actors : cleanup_closePage(a)
  \/ \E a \in Actors : cleanup_closeBrowser(a)

NextIdle ==
  \/ \E r \in Reqs : default_fetch_chart(r)
  \/ Render
  \/ alarm
  \/ Tick

SpecIdle == InitIdle /\ [][NextIdle]_vars

\* the pending operation of call c settles: every await of fetch,
\* initializeBrowser, updateChart, takeScreenshot and cleanup
CallStep(c) ==
  \/ initializeBrowser_launch(c)
  \/ initializeBrowser_newPage(c)
  \/ initializeBrowser_setContent(c)
  \/ initializeBrowser_waitForFunction(c)
  \/ updateChart_evaluate(c)
  \/ updateChart_waitForFunction(c)
  \/ takeScreenshot(c)
  \/ cleanup_closePage(c)
  \/ cleanup_closeBrowser(c)

NextLive ==
  \/ \E r \in Reqs : default_fetch_chart(r)
  \/ \E c \in Calls : BrowserSession_fetch(c)
  \/ \E c \in Calls : CallStep(c)

\* an operation the engine was given resolves or rejects: the wait of line 191
\* within its 5000 ms, the others within the engine's own timeouts
Fairness == \A c \in Calls : WF_vars(CallStep(c))

\* the session with every pending engine operation eventually settling
SpecLive == Init /\ [][NextLive]_vars /\ Fairness

\* the request normalizer alone: requests arrive, the session is not run
NextNorm ==
  \/ \E r \in Reqs : default_fetch_raw(r)
  \/ \E r \in Reqs : default_fetch_options(r)
  \/ \E r \in Reqs : testWorker(r)

SpecNorm == Init /\ [][NextNorm]_vars

TypeOK ==
  /\ browser \in 0..(NReq + 1)
  /\ page \in 0..(NReq + 1)
  /\ requestCount \in 0..(NReq + 1)
  /\ warmups \in 0..NReq
  /\ openP \subseteq 1..(NReq + 1)
  /\ openB \subseteq 1..(NReq + 1)
  /\ loaded \subseteq 1..(NReq + 1)
  /\ ready \subseteq loaded

\* ------------------------------------------------------------------------
\* steps the claims speak of

\* call c returns its Response (fetch line 122)
Returned(c) == pc[c] = "screenshot" /\ pc'[c] = EndPc(c) /\ cause'[c] = "none"

\* call c rethrows after its cleanup (fetch line 139)
Rethrown(c) == pc[c] \in DOPcs /\ pc'[c] = EndPc(c) /\ cause'[c] # "none"

\* call c runs lines 91-105 of fetch
Entered(c) == pc[c] = "sent" /\ pc'[c] \in DOPcs

NoFailure == \A c \in Calls : cause[c] = "none"

\* request r passed the gateway's validation and was sent to the session
ValidChart(r) == Route(req[r].method, req[r].path, req[r].chart) = "dispatch"

\* ------------------------------------------------------------------------
\* C1: render calls on the session never overlap: at most one call is between
\* its initialize-or-reuse step and its return or the end of its cleanup.
C1_NoOverlap == Cardinality(InDO) <= 1

\* C2: for calls made one after another, with no failure: the first return
\* reports reused=false and requestCount=1, every later one reused=true and a
\* requestCount greater than the previous return's.
C2_SequentialCounts ==
  [][\A c \in Calls :
       (Returned(c) /\ serial /\ NoFailure') =>
         IF lastRet.count = 0
         THEN lastRet' = [count |-> 1, reused |-> FALSE]
         ELSE lastRet'.reused /\ lastRet'.count > lastRet.count]_vars

\* three calls in a row have returned, the third reporting requestCount 3
C2_Witness == serial /\ NoFailure /\ lastRet = [count |-> 3, reused |-> TRUE]

\* C3: when a failed call rethrows, the session holds no browser and no page
\* and requestCount is 0.
C3_FailureResets ==
  [][\A c \in Calls :
       Rethrown(c) => (browser' = Null /\ page' = Null /\ requestCount' = 0)]_vars

\* an idle check is due or running
CheckPending == pc[AlarmId] # "off" \/ (alarmAt # NoAlarm /\ alarmAt <= now)

\* C4: a call that arrives when the session has been idle for longer than the
\* threshold (and one check period), with no idle check still due, finds the
\* resource disposed and initializes again.
C4_IdleTeardown ==
  [][\A c \in Calls :
       (Entered(c) /\ InDO = {} /\ now - lastUsed > IdleMs + AlarmMs
          /\ ~CheckPending) => pc'[c] = "launch"]_vars

\* C5: at most one launched browser is open, and it is the session's browser.
C5_OneLiveInstance == Cardinality(openB) <= 1 /\ openB \subseteq {browser}

\* alarm() takes its cleanup branch (the alarm is consumed and not set again),
\* or the cleanup it started moves on
AlarmDisposes ==
  \/ alarmAt # NoAlarm /\ alarmAt' = NoAlarm
  \/ pc'[AlarmId] # pc[AlarmId]

C7_WarmupOnce ==
  /\ warmups <= 1
  /\ (\E r \in Reqs : pc[r] # "idle") <=> warmups = 1
  /\ warmedUp <=> warmups = 1
  /\ pc[W] = "idle" <=> warmups = 0

\* the first request was answered 404 while the warmup it started is still
\* rendering, and a second request has come without a second warmup
C7_Witness ==
  /\ warmups = 1
  /\ pc[1] = "responded" /\ resp[1].status = 404
  /\ pc[W] \in DOPcs
  /\ pc[2] # "idle"

\* C8: no real request fails on a resource that a failing warmup disposed: a
\* request whose page or browser was taken away is never in a run where the
\* only other call that threw is the warmup, thrown by an engine failure.
C8_WarmupHarmless ==
  \A r \in Reqs :
    ~(/\ cause[r] = "gone"
      /\ cause[W] = "fault"
      /\ \A c \in Reqs \ {r} : cause[c] = "none")

\* C9: with no engine failure, the first valid /chart request of the process is
\* answered 200 with reused=false, and a valid /chart request made after that
\* response is answered 200 with reused=true and requestCount 2.
C9_ColdThenReused ==
  /\ (pc[1] = "responded" /\ ValidChart(1) /\ faulty = {})
       => (resp[1].status = 200 /\ ~resp[1].reused)
  /\ (pc[2] = "responded" /\ ValidChart(1) /\ ValidChart(2) /\ req[2].after
        /\ resp[1].status = 200 /\ faulty = {})
       => (resp[2].status = 200 /\ resp[2].reused /\ resp[2].count = 2)

\* the route table: GET|HEAD on / and /health, GET|POST on /chart
Served(m, p) ==
  \/ p \in {"/", "/health"} /\ m \in {"GET", "HEAD"}
  \/ p = "/chart" /\ m \in {"GET", "POST"}

\* C10: a request outside the route table is answered 404, one inside is not.
C10_Routing ==
  \A r \in Reqs :
    pc[r] = "responded" =>
      IF Served(req[r].method, req[r].path) THEN resp[r].status # 404
      ELSE resp[r].status = 404

\* request r is taken by the gateway in this step, on /chart, and carries no
\* chart value or one that cannot be parsed
BadChartArrives(r) ==
  /\ pc[r] = "idle" /\ pc'[r] # "idle"
  /\ req'[r].path = "/chart"
  /\ req'[r].chart # "valid"

\* C11: a /chart request without a chart value is answered 400 {error}, one
\* whose chart payload cannot be decoded or parsed 400 {error, details}, never
\* 500; the request is not sent to the session and the session's browser, page,
\* requestCount and lastUsed are as before.
C11_BadChartTerminal ==
  [][\A r \in Reqs :
       BadChartArrives(r) =>
         /\ pc'[r] = "responded"
         /\ resp'[r].status = 400
         /\ resp'[r].keys = IF parseChartParameters(req'[r].method,
                                                    req'[r].chart) = "missing"
                            THEN {"error"} ELSE {"error", "details"}
         /\ UNCHANGED <<browser, page, requestCount, lastUsed>>]_vars

\* C12: every response of the gateway carries the request's identifier.
C12_RequestIdEverywhere ==
  \A r \in Reqs : pc[r] = "responded" => resp[r].rid

\* C13: the error member of a 500 answered for a failed render does not depend
\* on the failure: any two such responses have the same error text.
C13_GenericError ==
  \A r1, r2 \in Reqs :
    (/\ resp[r1].status = 500 /\ cause[r1] # "none"
     /\ resp[r2].status = 500 /\ cause[r2] # "none")
      => resp[r1].error = resp[r2].error

\* C19: while every request received so far was for / or /health, no call has
\* been made to the session and the session is as constructed.
C19_HealthNoSession ==
  (/\ \E r \in Reqs : pc[r] # "idle"
   /\ \A r \in Reqs : pc[r] # "idle" => req[r].path \in {"/", "/health"})
    => (/\ pc[W] = "idle"
        /\ browser = Null /\ page = Null /\ requestCount = 0 /\ nextId = 0)

\* C20: updateChart is only ever pending on a page whose template (the charting
\* library and window.updateChart) has been loaded.
C20_InitBeforeVisible ==
  \A c \in Calls : pc[c] = "evaluate" => tgt[c] \in loaded

\* the idle check fires in this step
AlarmFires == pc[AlarmId] = "off" /\ alarmAt' # alarmAt

\* the idle check's disposal ends in this step
AlarmEnds ==
  \/ pc[AlarmId] \in {"closePage", "closeBrowser"} /\ pc'[AlarmId] = "off"
  \/ AlarmFires /\ alarmAt' = NoAlarm /\ pc'[AlarmId] = "off"

\* C17: an idle check that fires at most 5 minutes after lastUsed leaves
\* browser, page, requestCount and lastUsed as they are and sets the next check
\* 60 s later; one that fires later sets no check and runs the disposal, which
\* closes the page and the browser the session holds, never touches lastUsed,
\* and ends with no browser, requestCount 0 and no check set.
C17_AlarmFrame ==
  [][/\ (AlarmFires /\ now - lastUsed <= IdleMs) =>
          /\ UNCHANGED <<browser, page, requestCount, lastUsed, openB, openP>>
          /\ alarmAt' = now + AlarmMs
          /\ pc'[AlarmId] = "off"
     /\ (AlarmFires /\ now - lastUsed > IdleMs) =>
          /\ alarmAt' = NoAlarm
          /\ pc'[AlarmId] = IF page # Null THEN "closePage"
                            ELSE IF browser # Null THEN "closeBrowser"
                            ELSE "off"
          /\ tgt'[AlarmId] = IF page # Null THEN page ELSE browser
     /\ (pc[AlarmId] = "closePage" /\ pc'[AlarmId] # "closePage") =>
          /\ tgt[AlarmId] \notin openP' /\ page' = Null
          /\ lastUsed' = lastUsed
     /\ (pc[AlarmId] = "closeBrowser" /\ pc'[AlarmId] # "closeBrowser") =>
          /\ tgt[AlarmId] \notin openB' /\ lastUsed' = lastUsed
     /\ AlarmEnds =>
          /\ browser' = Null /\ requestCount' = 0 /\ alarmAt' = NoAlarm
   ]_vars

\* ten minutes after the latest render the idle check has disposed the browser
\* that render had launched: nothing is open, the record is cleared and no
\* check is set
C17_Witness ==
  /\ NoFailure /\ lastRet.count >= 1
  /\ nextId = 1 /\ openB = {} /\ openP = {}
  /\ browser = Null /\ page = Null /\ requestCount = 0
  /\ pc[AlarmId] = "off" /\ alarmAt = NoAlarm
  /\ lastUsed = 0 /\ now = 2 * TickMs

\* call c is in, or through, its cleanup
InCleanup(c) == pc[c] \in {"closePage", "closeBrowser", EndPc(c)}

\* C16: every render call that entered fetch ends, returning an image or
\* rethrowing; initializeBrowser is entered at most once per call (from the
\* entry of fetch only) and updateChart at most once; a call that failed - in
\* particular one whose wait for chartReady expired - goes to cleanup and
\* nowhere else, and its cleanup closes the page and the browser the session
\* holds and ends with no browser and requestCount 0.
C16_RenderTerminates ==
  /\ \A c \in Calls : (pc[c] \in DOPcs) ~> (pc[c] = EndPc(c))
  /\ [][\A c \in Calls :
          /\ (pc'[c] = "sent" /\ pc[c] # "sent") => pc[c] = "idle"
          /\ (pc'[c] = "launch" /\ pc[c] # "launch") => pc[c] = "sent"
          /\ (pc'[c] = "evaluate" /\ pc[c] # "evaluate")
               => pc[c] \in {"sent", "waitChart"}
          /\ (cause'[c] # "none") => InCleanup(c)'
          /\ (pc[c] = "waitReady" /\ pc'[c] # "waitReady"
                /\ pc'[c] # "screenshot") => (cause'[c] # "none")
          /\ (pc[c] = "closePage" /\ pc'[c] # "closePage")
               => (tgt[c] \notin openP' /\ page' = Null)
          /\ (pc[c] = "closeBrowser" /\ pc'[c] # "closeBrowser")
               => (tgt[c] \notin openB' /\ browser' = Null)
          /\ Rethrown(c) => (browser' = Null /\ requestCount' = 0)
       ]_vars

\* a call whose wait for chartReady failed has closed the page and the browser
\* and has ended; the warmup before it had returned its image
C16_Witness ==
  \E r \in Reqs :
    /\ cause[r] = "fault" /\ pc[r] = "responded" /\ resp[r].status = 500
    /\ ~didInit[r]
    /\ pc[W] = "done" /\ cause[W] = "none"
    /\ openB = {} /\ openP = {} /\ browser = Null /\ page = Null
    /\ requestCount = 0 /\ nextId = 1

\* C18: the image is captured only after the chart's completion: when a
\* screenshot is pending, the ready flag that released the wait before it was
\* set by the library's completion callback, not by the frame fallback.
C18_ReadyAfterCompletion ==
  \A c \in Calls : pc[c] = "screenshot" => releasedBy[c] = "onComplete"

PositiveInteger(v) == v.t = "int" /\ v.n > 0

\* C14: in every chartConfig the gateway hands to the session, width and
\* height are unset or positive integers, whatever w, width, h and height
\* were; and a dimension given under neither of its names is left unset.
C14_DimensionsPositive ==
  norm.config # NoConfig =>
    /\ norm.config.width = Unset \/ PositiveInteger(norm.config.width)
    /\ norm.config.height = Unset \/ PositiveInteger(norm.config.height)
    /\ (norm.w = Absent /\ norm.width = Absent) => norm.config.width = Unset
    /\ (norm.h = Absent /\ norm.height = Absent) => norm.config.height = Unset

\* C15: whatever chart the client starts from, the chartConfig the gateway
\* decodes from its base64 text, from its JSON text, or from the chart itself
\* given as a structured value, is that chart.
C15_DecodeRoundTrip ==
  norm.from # NoSpec =>
    (norm.config # NoConfig /\ norm.config.spec = norm.from)

\* no call is between its arrival at the session and its return or rethrow,
\* and no alarm() is running
Quiescent ==
  /\ \A c \in Calls : pc[c] \notin DOPcs \cup {"sent"}
  /\ pc[AlarmId] = "off"

\* C21: whenever no render call and no idle check is in progress, the session
\* record is consistent: browser and page are both set or both null, and
\* they are set exactly when requestCount is at least 1.
C21_QuiescentConsistent ==
  Quiescent =>
    /\ (browser = Null) <=> (page = Null)
    /\ (browser # Null /\ page # Null) <=> (requestCount >= 1)

\* C22: the reuse flag of a render response agrees with what its call did:
\* reused=true only if the call took no initialization (X-Init-Time is the 0
\* of line 98), reused=false only if the call ran initializeBrowser; under
\* any interleaving of the calls on the session.
C22_ReuseFlagAgrees ==
  \A r \in Reqs :
    (pc[r] = "responded" /\ resp[r].status = 200 /\ resp[r].body = "png")
      => (resp[r].reused <=> ~resp[r].init)
====
